---------------------------- MODULE Spec2Model ----------------------------
(***************************************************************************)
(* A model of extensions/link-sessions-core.ts: the transactional relink  *)
(* (createLinkTransaction / commit / rollback), the folder listing and the *)
(* primitives they are built from, over an explicit model of the           *)
(* filesystem; and of the /link-sessions command handler of                *)
(* extensions/link-sessions.ts, which drives them.                         *)
(*                                                                         *)
(* A path is a sequence of names, <<>> being the root directory.  A        *)
(* filesystem is a function from the paths that hold an entry to nodes;    *)
(* its domain is prefix closed and every proper prefix is a directory.     *)
(* Symbolic links hold an absolute path (createLinkTransaction resolve()s  *)
(* what it links to, and the tests link absolute paths).                   *)
(***************************************************************************)
EXTENDS Integers, Sequences, FiniteSets, TLC

(***************************************************************************)
(* Bounds of the model.                                                    *)
(***************************************************************************)
\* Date.now() is drawn from 0..MaxStamp; the initial backup-like names use 0.
MaxStamp == 1
\* How many commit()/rollback() calls are made on one transaction.
MaxCalls == 2
\* How many symbolic links one path resolution follows before ELOOP.
MaxHops == 4

(***************************************************************************)
(* Nodes and paths.                                                        *)
(***************************************************************************)
Dir == [kind |-> "dir", target |-> <<>>, data |-> ""]
File(d) == [kind |-> "file", target |-> <<>>, data |-> d]
Link(t) == [kind |-> "link", target |-> t, data |-> ""]

\* The result of a failed path lookup; "" is not a name.
NoEntry == <<"">>

\* path.dirname and path.basename of a non-root path.
dirname(p) == SubSeq(p, 1, Len(p) - 1)
basename(p) == p[Len(p)]

IsPrefix(p, q) == Len(p) <= Len(q) /\ SubSeq(q, 1, Len(p)) = p

\* The entries at or below p.
Under(fs, p) == {q \in DOMAIN fs : IsPrefix(p, q)}

\* The tree at p with p taken off each path: what is stored at p.
Subtree(fs, p) ==
    [s \in {SubSeq(q, Len(p) + 1, Len(q)) : q \in Under(fs, p)} |-> fs[p \o s]]

(***************************************************************************)
(* Path resolution, as the kernel does it.  Walk follows every symbolic    *)
(* link in rest, the last component included; done is a real directory.    *)
(***************************************************************************)
RECURSIVE Walk(_, _, _, _)
Walk(fs, done, rest, fuel) ==
    IF rest = <<>> THEN done
    ELSE LET next == Append(done, Head(rest)) IN
         IF next \notin DOMAIN fs THEN NoEntry
         ELSE CASE fs[next].kind = "link" ->
                     IF fuel = 0 THEN NoEntry
                     ELSE Walk(fs, <<>>, fs[next].target \o Tail(rest), fuel - 1)
                [] fs[next].kind = "dir" -> Walk(fs, next, Tail(rest), fuel)
                [] OTHER -> IF Tail(rest) = <<>> THEN next ELSE NoEntry

\* stat(2): the real path p ends at, or NoEntry (ENOENT, ENOTDIR, ELOOP).
realpath(fs, p) == Walk(fs, <<>>, p, MaxHops)

\* Where an entry named by p lives or would live: the parent is resolved,
\* the last component is not followed.  NoEntry when the parent is no directory.
slot(fs, p) ==
    IF p = <<>> THEN <<>>
    ELSE LET par == realpath(fs, dirname(p)) IN
         IF par = NoEntry THEN NoEntry
         ELSE IF fs[par].kind # "dir" THEN NoEntry
         ELSE Append(par, basename(p))

\* lstat(2): the entry p names, its last component not followed, or NoEntry.
lpath(fs, p) ==
    LET s == slot(fs, p) IN IF s \in DOMAIN fs THEN s ELSE NoEntry

existsSync(fs, p) == realpath(fs, p) # NoEntry

\* A faulty variant of isDirectoryLike: looks at the entry itself (lstat).
isDirectoryLikeLstat(fs, p) ==
    LET l == lpath(fs, p) IN
    IF l = NoEntry THEN FALSE ELSE fs[l].kind = "dir"

isDirectoryLike(fs, p) ==
    LET r == realpath(fs, p) IN
    IF r = NoEntry THEN FALSE ELSE fs[r].kind = "dir"

\* A faulty variant of getPathKind: every entry that is no link counts as a directory.
getPathKindNoOther(fs, p, lstatFails) ==
    IF ~existsSync(fs, p) THEN "missing"
    ELSE IF lstatFails THEN "other"
    ELSE IF fs[lpath(fs, p)].kind = "link" THEN "symlink" ELSE "directory"

\* A faulty variant of getPathKind: a failing lstatSync counts as a missing path.
getPathKindLstatMissing(fs, p, lstatFails) ==
    IF ~existsSync(fs, p) \/ lstatFails THEN "missing"
    ELSE LET k == fs[lpath(fs, p)].kind IN
         IF k = "link" THEN "symlink"
         ELSE IF k = "dir" THEN "directory"
         ELSE "other"

\* lstatFails: the lstatSync call throws although existsSync just succeeded.
getPathKind(fs, p, lstatFails) ==
    IF ~existsSync(fs, p) THEN "missing"
    ELSE IF lstatFails THEN "other"
    ELSE LET k == fs[lpath(fs, p)].kind IN
         IF k = "link" THEN "symlink"
         ELSE IF k = "dir" THEN "directory"
         ELSE "other"

(***************************************************************************)
(* The primitives that change the filesystem.  Each returns the new        *)
(* filesystem and whether the call threw; a call that throws for a reason  *)
(* the filesystem does not explain (EACCES, EIO, ...) is an input, fail.   *)
(***************************************************************************)
Ok(fs) == [fs |-> fs, threw |-> FALSE]
Threw(fs) == [fs |-> fs, threw |-> TRUE]

RemoveTree(fs, p) == [q \in DOMAIN fs \ Under(fs, p) |-> fs[q]]

\* The tree at from moved to the slot to, replacing what was there.
MoveTree(fs, from, to) ==
    LET moved == {to \o SubSeq(q, Len(from) + 1, Len(q)) : q \in Under(fs, from)}
        kept == DOMAIN fs \ (Under(fs, from) \cup Under(fs, to))
    IN  [q \in kept \cup moved |->
            IF q \in moved THEN fs[from \o SubSeq(q, Len(to) + 1, Len(q))]
            ELSE fs[q]]

\* rename(2): neither last component is followed; a directory replaces only
\* an empty directory, a non-directory replaces only a non-directory.
renameSync(fs, old, new, fail) ==
    LET o == lpath(fs, old)
        n == slot(fs, new)
    IN  IF fail \/ o = NoEntry \/ n = NoEntry \/ o = <<>> \/ n = <<>> THEN Threw(fs)
        ELSE IF o = n THEN Ok(fs)
        ELSE IF IsPrefix(o, n) THEN Threw(fs)
        ELSE IF n \notin DOMAIN fs THEN Ok(MoveTree(fs, o, n))
        ELSE IF fs[o].kind = "dir"
             THEN IF fs[n].kind = "dir" /\ Under(fs, n) = {n}
                  THEN Ok(MoveTree(fs, o, n)) ELSE Threw(fs)
        ELSE IF fs[n].kind = "dir" THEN Threw(fs)
        ELSE Ok(MoveTree(fs, o, n))

\* symlink(2): EEXIST when the path holds any entry, a dangling link included.
symlinkSync(fs, target, path, fail) ==
    LET n == slot(fs, path) IN
    IF fail \/ n = NoEntry \/ n \in DOMAIN fs THEN Threw(fs)
    ELSE Ok([q \in DOMAIN fs \cup {n} |-> IF q = n THEN Link(target) ELSE fs[q]])

\* mkdirSync(p, {recursive: true}): creates every missing directory on the
\* way to p; throws when a component is not (a link to) a directory.
RECURSIVE MkdirP(_, _, _)
MkdirP(fs, done, rest) ==
    IF rest = <<>> THEN Ok(fs)
    ELSE LET next == Append(done, Head(rest)) IN
         IF next \notin DOMAIN fs
         THEN MkdirP([q \in DOMAIN fs \cup {next} |-> IF q = next THEN Dir ELSE fs[q]],
                     next, Tail(rest))
         ELSE IF fs[next].kind = "dir" THEN MkdirP(fs, next, Tail(rest))
         ELSE IF isDirectoryLike(fs, next) THEN MkdirP(fs, realpath(fs, next), Tail(rest))
         ELSE Threw(fs)

mkdirSync(fs, p, fail) == IF fail THEN Threw(fs) ELSE MkdirP(fs, <<>>, p)

\* rmSync(p, {recursive, force: true}): a missing path is no error; the last
\* component is never followed.  fail is "no", "early" (throws with nothing
\* removed) or "partial" (a recursive removal empties the directory and then
\* throws before removing the directory itself).
rmSync(fs, p, recursive, fail) ==
    LET l == lpath(fs, p) IN
    IF l = NoEntry THEN Ok(fs)
    ELSE IF l = <<>> \/ fail = "early" THEN Threw(fs)
    ELSE IF fs[l].kind # "dir" THEN IF fail = "partial" THEN Threw(fs) ELSE Ok(RemoveTree(fs, l))
    ELSE IF ~recursive THEN Threw(fs)
    ELSE IF fail = "partial" THEN Threw([q \in (DOMAIN fs \ Under(fs, l)) \cup {l} |-> fs[q]])
    ELSE Ok(RemoveTree(fs, l))

\* The fail argument of rmSync that a set of injected failures stands for.
RmFail(faults) ==
    IF "rm" \in faults THEN "early" ELSE IF "rmPartial" \in faults THEN "partial" ELSE "no"

(***************************************************************************)
(* makeUniqueBackupPath and safeRemovePath.                                *)
(***************************************************************************)
BackupName(name, stamp, index) ==
    IF index = 0 THEN name \o ".bak-" \o ToString(stamp)
    ELSE name \o ".bak-" \o ToString(stamp) \o "-" \o ToString(index)

candidate(path, stamp, index) ==
    Append(dirname(path), BackupName(basename(path), stamp, index))

RECURSIVE backupLoop(_, _, _, _)
backupLoop(fs, path, stamp, index) ==
    IF existsSync(fs, candidate(path, stamp, index))
    THEN backupLoop(fs, path, stamp, index + 1)
    ELSE candidate(path, stamp, index)

\* A faulty variant of makeUniqueBackupPath: the first name, used or not.
makeUniqueBackupPathUnchecked(fs, path, stamp) == candidate(path, stamp, 0)

makeUniqueBackupPath(fs, path, stamp) == backupLoop(fs, path, stamp, 0)

\* A faulty variant of safeRemovePath: removes what the path dereferences to.
safeRemovePathFollows(fs, path, faults) ==
    IF ~existsSync(fs, path) THEN fs
    ELSE IF "lstat" \in faults THEN fs
    ELSE rmSync(fs, realpath(fs, path), TRUE, RmFail(faults)).fs

\* The try block of safeRemovePath: lstatSync, then the rmSync that fits.
safeRemoveTry(fs, path, faults) ==
    IF "lstat" \in faults THEN Threw(fs)
    ELSE IF fs[lpath(fs, path)].kind = "link"
         THEN rmSync(fs, path, FALSE, RmFail(faults))
         ELSE rmSync(fs, path, TRUE, RmFail(faults))

\* A faulty variant of safeRemovePathCall: without the catch block.
safeRemovePathUncaught(fs, path, faults) ==
    IF ~existsSync(fs, path) THEN Ok(fs) ELSE safeRemoveTry(fs, path, faults)

\* One call of safeRemovePath: the filesystem afterwards and whether the
\* call threw.  The empty catch block ends every failure of the try block.
safeRemovePathCall(fs, path, faults) ==
    IF ~existsSync(fs, path) THEN Ok(fs) ELSE Ok(safeRemoveTry(fs, path, faults).fs)

\* The filesystem after safeRemovePath.
safeRemovePath(fs, path, faults) == safeRemovePathCall(fs, path, faults).fs

(***************************************************************************)
(* countSessionFiles and listFolderChoices.  unreadable is the set of      *)
(* directories whose readdirSync fails for a reason outside the model      *)
(* (EACCES, EIO).                                                          *)
(***************************************************************************)
\* readdirSync(p): the names of the entries of the directory p resolves to;
\* throws when p resolves to no directory or the directory cannot be read.
readdirSync(fs, p, unreadable) ==
    LET r == realpath(fs, p) IN
    IF r = NoEntry THEN [threw |-> TRUE, names |-> {}]
    ELSE IF fs[r].kind # "dir" \/ r \in unreadable THEN [threw |-> TRUE, names |-> {}]
    ELSE [threw |-> FALSE,
          names |-> {basename(q) : q \in {c \in DOMAIN fs : c # <<>> /\ dirname(c) = r}}]

\* String.prototype.endsWith
endsWith(s, suffix) ==
    /\ Len(s) >= Len(suffix)
    /\ SubSeq(s, Len(s) - Len(suffix) + 1, Len(s)) = suffix

\* A faulty variant of countSessionFiles: counts every entry.
countSessionFilesAll(fs, dirPath, unreadable) ==
    LET d == readdirSync(fs, dirPath, unreadable) IN
    IF d.threw THEN 0 ELSE Cardinality(d.names)

countSessionFiles(fs, dirPath, unreadable) ==
    LET d == readdirSync(fs, dirPath, unreadable) IN
    IF d.threw THEN 0 ELSE Cardinality({n \in d.names : endsWith(n, ".jsonl")})

\* String.prototype.localeCompare on the characters entry names are made
\* of here: punctuation before digits before letters, a prefix first.
Collation == "_-.0123456789abcdefghijklmnopqrstuvwxyz"
Weight(c) == CHOOSE i \in 1..Len(Collation) : SubSeq(Collation, i, i) = c

RECURSIVE compareFrom(_, _, _)
compareFrom(a, b, i) ==
    IF i > Len(a) THEN (IF i > Len(b) THEN 0 ELSE -1)
    ELSE IF i > Len(b) THEN 1
    ELSE IF SubSeq(a, i, i) = SubSeq(b, i, i) THEN compareFrom(a, b, i + 1)
    ELSE IF Weight(SubSeq(a, i, i)) < Weight(SubSeq(b, i, i)) THEN -1 ELSE 1

localeCompare(a, b) == compareFrom(a, b, 1)

\* A faulty variant of compareChoices: by name alone.
compareChoicesByName(a, b) == localeCompare(a.name, b.name)

\* The comparator handed to choices.sort.
compareChoices(a, b) ==
    IF a.isCurrent # b.isCurrent THEN (IF a.isCurrent THEN -1 ELSE 1)
    ELSE localeCompare(a.name, b.name)

\* Array.prototype.sort with that comparator, the choices (their names are
\* distinct) taken in any order: each is put before the first one it precedes.
RECURSIVE insertChoice(_, _)
insertChoice(c, sorted) ==
    IF sorted = <<>> THEN <<c>>
    ELSE IF compareChoices(c, Head(sorted)) < 0 THEN <<c>> \o sorted
    ELSE <<Head(sorted)>> \o insertChoice(c, Tail(sorted))

RECURSIVE sortChoices(_)
sortChoices(S) ==
    IF S = {} THEN <<>>
    ELSE LET c == CHOOSE x \in S : TRUE IN insertChoice(c, sortChoices(S \ {c}))

FolderChoice(fs, sessionsRoot, name, currentFolderName, unreadable) ==
    [name |-> name,
     path |-> Append(sessionsRoot, name),
     sessionCount |-> countSessionFiles(fs, Append(sessionsRoot, name), unreadable),
     isCurrent |-> name = currentFolderName]

Listed(c) == [threw |-> FALSE, choices |-> c]
ListThrew == [threw |-> TRUE, choices |-> <<>>]

\* A faulty variant of listFolderChoices: keeps every directory and every link.
listFolderChoicesNoDeref(fs, sessionsRoot, currentFolderName, unreadable) ==
    IF ~existsSync(fs, sessionsRoot) THEN Listed(<<>>)
    ELSE LET d == readdirSync(fs, sessionsRoot, unreadable) IN
         IF d.threw THEN ListThrew
         ELSE LET kept == {n \in d.names :
                              fs[lpath(fs, Append(sessionsRoot, n))].kind \in {"dir", "link"}}
              IN  Listed(sortChoices({FolderChoice(fs, sessionsRoot, n, currentFolderName,
                                                   unreadable) : n \in kept}))

\* The choices returned, or threw: readdirSync of the root is not caught.
listFolderChoices(fs, sessionsRoot, currentFolderName, unreadable) ==
    IF ~existsSync(fs, sessionsRoot) THEN Listed(<<>>)
    ELSE LET d == readdirSync(fs, sessionsRoot, unreadable) IN
         IF d.threw THEN ListThrew
         ELSE LET kept == {n \in d.names :
                              /\ fs[lpath(fs, Append(sessionsRoot, n))].kind \in {"dir", "link"}
                              /\ isDirectoryLike(fs, Append(sessionsRoot, n))}
              IN  Listed(sortChoices({FolderChoice(fs, sessionsRoot, n, currentFolderName,
                                                   unreadable) : n \in kept}))

(***************************************************************************)
(* createLinkTransaction.  faults is the set of calls that fail for a      *)
(* reason outside the filesystem: "lstat" (in getPathKind), "mkdir",       *)
(* "rename" (to the backup), "symlink", "restore" (the rename back).       *)
(* The result holds the filesystem afterwards, the error thrown ("" when a *)
(* transaction is returned), the local backupPath (NoEntry: undefined),    *)
(* and how the restoring rename of the catch block went.                   *)
(***************************************************************************)
ErrTarget == "Target is not a directory"
ErrRefused == "Refusing to overwrite non-directory/non-symlink path"

Outcome(f, e, b, r) == [fs |-> f, error |-> e, backupPath |-> b, restore |-> r]

\* A faulty variant of linkOrRestore: the error is rethrown without the rename back.
linkNoRestore(fs, current, target, backupPath, faults) ==
    LET linked == symlinkSync(fs, target, current, "symlink" \in faults) IN
    IF ~linked.threw THEN Outcome(linked.fs, "", backupPath, "none")
    ELSE Outcome(fs, "symlinkSync", backupPath, "none")

\* A faulty variant of linkOrRestore: a failing rename back replaces the error.
linkOrRestoreRethrowsLast(fs, current, target, backupPath, faults) ==
    LET linked == symlinkSync(fs, target, current, "symlink" \in faults) IN
    IF ~linked.threw THEN Outcome(linked.fs, "", backupPath, "none")
    ELSE IF backupPath # NoEntry /\ existsSync(fs, backupPath)
         THEN LET back == renameSync(fs, backupPath, current, "restore" \in faults) IN
              Outcome(back.fs, IF back.threw THEN "renameSync" ELSE "symlinkSync",
                      backupPath, IF back.threw THEN "failed" ELSE "done")
         ELSE Outcome(fs, "symlinkSync", backupPath, "none")

\* Lines 170-182: the link, and the restoring rename when it cannot be made.
linkOrRestore(fs, current, target, backupPath, faults) ==
    LET linked == symlinkSync(fs, target, current, "symlink" \in faults) IN
    IF ~linked.threw THEN Outcome(linked.fs, "", backupPath, "none")
    ELSE IF backupPath # NoEntry /\ existsSync(fs, backupPath)
         THEN LET back == renameSync(fs, backupPath, current, "restore" \in faults) IN
              Outcome(back.fs, "symlinkSync", backupPath,
                      IF back.threw THEN "failed" ELSE "done")
         ELSE Outcome(fs, "symlinkSync", backupPath, "none")

\* A faulty variant of createLinkTransaction: the current path is checked
\* before the target.
createLinkTransactionKindFirst(fs, current, target, stamp, faults) ==
    LET currentKind == getPathKind(fs, current, "lstat" \in faults) IN
    IF currentKind = "other" THEN Outcome(fs, ErrRefused, NoEntry, "none")
    ELSE IF ~isDirectoryLike(fs, target) THEN Outcome(fs, ErrTarget, NoEntry, "none")
    ELSE LET made == mkdirSync(fs, dirname(current), "mkdir" \in faults) IN
    IF made.threw THEN Outcome(made.fs, "mkdirSync", NoEntry, "none")
    ELSE IF currentKind = "missing"
         THEN linkOrRestore(made.fs, current, target, NoEntry, faults)
    ELSE LET backupPath == makeUniqueBackupPath(made.fs, current, stamp)
             moved == renameSync(made.fs, current, backupPath, "rename" \in faults)
         IN  IF moved.threw THEN Outcome(moved.fs, "renameSync", backupPath, "none")
             ELSE linkOrRestore(moved.fs, current, target, backupPath, faults)

createLinkTransaction(fs, current, target, stamp, faults) ==
    IF ~isDirectoryLike(fs, target) THEN Outcome(fs, ErrTarget, NoEntry, "none")
    ELSE LET currentKind == getPathKind(fs, current, "lstat" \in faults) IN
    IF currentKind = "other" THEN Outcome(fs, ErrRefused, NoEntry, "none")
    ELSE LET made == mkdirSync(fs, dirname(current), "mkdir" \in faults) IN
    IF made.threw THEN Outcome(made.fs, "mkdirSync", NoEntry, "none")
    ELSE IF currentKind = "missing"
         THEN linkOrRestore(made.fs, current, target, NoEntry, faults)
    ELSE LET backupPath == makeUniqueBackupPath(made.fs, current, stamp)
             moved == renameSync(made.fs, current, backupPath, "rename" \in faults)
         IN  IF moved.threw THEN Outcome(moved.fs, "renameSync", backupPath, "none")
             ELSE linkOrRestore(moved.fs, current, target, backupPath, faults)

(***************************************************************************)
(* rollback and commit of a transaction: its closed flag, the filesystem   *)
(* afterwards and whether the call threw.  faults: "lstat", "rm" and       *)
(* "rmPartial" (in safeRemovePath), "rename" (the rename back).            *)
(***************************************************************************)
Finalized(f, c, t) == [fs |-> f, closed |-> c, threw |-> t]

\* A faulty variant of rollback: the closed flag is not consulted.
rollbackUnguarded(fs, closed, current, backupPath, faults) ==
    LET removed == safeRemovePath(fs, current, faults) IN
    IF backupPath # NoEntry /\ existsSync(removed, backupPath)
    THEN LET back == renameSync(removed, backupPath, current, "rename" \in faults) IN
         Finalized(back.fs, TRUE, back.threw)
    ELSE Finalized(removed, TRUE, FALSE)

\* A faulty variant of rollback: the new link is not removed before the rename back.
rollbackKeepsLink(fs, closed, current, backupPath, faults) ==
    IF closed THEN Finalized(fs, TRUE, FALSE)
    ELSE IF backupPath # NoEntry /\ existsSync(fs, backupPath)
         THEN LET back == renameSync(fs, backupPath, current, "rename" \in faults) IN
              Finalized(back.fs, TRUE, back.threw)
         ELSE Finalized(fs, TRUE, FALSE)

rollback(fs, closed, current, backupPath, faults) ==
    IF closed THEN Finalized(fs, TRUE, FALSE)
    ELSE LET removed == safeRemovePath(fs, current, faults) IN
         IF backupPath # NoEntry /\ existsSync(removed, backupPath)
         THEN LET back == renameSync(removed, backupPath, current, "rename" \in faults) IN
              Finalized(back.fs, TRUE, back.threw)
         ELSE Finalized(removed, TRUE, FALSE)

\* A faulty variant of commit: the backup is kept.
commitKeepsBackup(fs, closed, backupPath, faults) == Finalized(fs, TRUE, FALSE)

commit(fs, closed, backupPath, faults) ==
    IF closed THEN Finalized(fs, TRUE, FALSE)
    ELSE IF backupPath # NoEntry /\ existsSync(fs, backupPath)
         THEN Finalized(safeRemovePath(fs, backupPath, faults), TRUE, FALSE)
         ELSE Finalized(fs, TRUE, FALSE)

(***************************************************************************)
(* The filesystems a transaction starts from.  The session directory is    *)
(* /r/cur; /r is the sessions root, whose other entries are its siblings.  *)
(***************************************************************************)
Root == <<"r">>
Cur == <<"r", "cur">>
Sub == <<"r", "cur", "sub">>
Tgt == <<"r", "tgt">>
Old == <<"r", "old">>
Lnk == <<"r", "lnk">>
Reg == <<"r", "file">>
Gone == <<"r", "gone">>
Out == <<"x">>
Bak0 == candidate(Cur, 0, 0)
Bak1 == candidate(Cur, 0, 1)

MkFs(entries) ==
    [p \in {e[1] : e \in entries} |-> (CHOOSE e \in entries : e[1] = p)[2]]

\* Outside the sessions root: a directory that can serve as a target.
Outside == {<< <<>>, Dir >>, << Out, Dir >>, << Out \o <<"x.jsonl">>, File("x") >>}

Siblings ==
    {<< Root, Dir >>,
     << Tgt, Dir >>, << Tgt \o <<"new.jsonl">>, File("new") >>,
     << Old, Dir >>, << Old \o <<"old.jsonl">>, File("old") >>,
     << Reg, File("plain") >>}

\* What /r/cur is before the call.
CurChoices ==
    {{},
     {<< Cur, File("notadir") >>},
     {<< Cur, Dir >>, << Cur \o <<"a.jsonl">>, File("a") >>,
      << Sub, Dir >>, << Sub \o <<"deep.jsonl">>, File("deep") >>},
     {<< Cur, Dir >>, << Cur \o <<"a.jsonl">>, File("a") >>,
      << Cur \o <<"b.jsonl">>, File("b") >>, << Cur \o <<"notes.txt">>, File("n") >>},
     {<< Cur, Link(Old) >>},
     {<< Cur, Link(Reg) >>},
     {<< Cur, Link(Gone) >>}}

\* The sibling link /r/lnk: to the session directory, to a folder, dangling.
LnkChoices == {{<< Lnk, Link(t) >>} : t \in {Cur, Tgt, Gone}}

\* Entries that already carry a backup name of stamp 0.
BakChoices ==
    {{},
     {<< Bak0, File("stale") >>},
     {<< Bak0, File("stale") >>, << Bak1, Dir >>},
     {<< Bak0, Link(Gone) >>}}

InitialFS ==
    {MkFs(Outside \cup Siblings \cup c \cup l \cup b) :
        c \in CurChoices, l \in LnkChoices, b \in BakChoices}
    \cup {MkFs(Outside), MkFs(Outside \cup {<< Root, File("notadir") >>})}

\* The targetPath arguments tried.
Targets == {Tgt, Old, Lnk, Cur, Sub, Reg, Gone, Out}

CreateFaults == {"lstat", "mkdir", "rename", "symlink", "restore"}
FinalizeFaults == {"lstat", "rm", "rmPartial", "rename"}

(***************************************************************************)
(* The state: the filesystem, and one transaction on /r/cur.               *)
(***************************************************************************)
VARIABLES
    fs,          \* the filesystem
    pc,          \* "start", "open" (a transaction was returned), "threw"
    targetPath,  \* the targetPath argument (NoEntry before the call)
    backupPath,  \* the transaction's backupPath (NoEntry: undefined)
    closed,      \* the transaction's closed flag
    error,       \* what createLinkTransaction threw ("": nothing)
    restore,     \* the restoring rename of construction: none, done, failed
    calls,       \* the commit()/rollback() calls made: [op, threw]
    faulted,     \* a primitive failed for a reason outside the filesystem
    fs0,         \* history: the filesystem before createLinkTransaction
    fsOpen,      \* history: the filesystem when createLinkTransaction returned
    fsFirst,     \* history: the filesystem after the first commit()/rollback()
    hpc,         \* the /link-sessions handler: "idle" (not running), the await
                 \* it is suspended at, "done" (returned), "threw" (rejected)
    selected,    \* the handler's selectedFolder (NoChoice: none yet)
    shown,       \* the confirm dialogs the handler showed: [title, answer]
    awaited,     \* the last call the handler awaited, the dialogs asked before
                 \* the link aside, and how it came back: [call, result]
    listed,      \* a call of listFolderChoices: its arguments and its result
    probed,      \* a path the path primitives were called on, and their results
    step,        \* createLinkTransaction, rollback and commit taken one
                 \* filesystem operation at a time: the operation that is next
    picker       \* the folder picker: its selection, preview text, preview
                 \* cache, request counter and the previews being built

\* The transaction and the filesystem; the handler's own state.
txvars == <<fs, pc, targetPath, backupPath, closed, error, restore, calls,
            faulted, fs0, fsOpen, fsFirst>>
hvars == <<hpc, selected, shown, awaited>>
\* The primitives called on their own.
pure == <<listed, probed>>
\* The transaction taken step by step; the folder picker.
rest == <<step, picker>>
vars == <<txvars, hvars, pure, rest>>

NoChoice == [name |-> "", path |-> NoEntry, sessionCount |-> 0, isCurrent |-> FALSE]

\* Nothing awaited yet.
NoAwait == [call |-> "", result |-> ""]

\* No call of listFolderChoices made.
NoListing == [root |-> NoEntry, name |-> "", unreadable |-> {}, result |-> Listed(<<>>)]

\* No path probed.
NoProbe == [path |-> NoEntry, faults |-> {}, kind |-> "", directoryLike |-> FALSE,
            removed |-> Ok(<<>>)]

\* No transaction is taken step by step; no folder picker is open.
NoStep == [next |-> "idle", currentKind |-> ""]
NoPicker == [state |-> "none"]
Quiet == step = NoStep /\ picker = NoPicker

\* Before createLinkTransaction is called, on one of the filesystems F.
Fresh(F) ==
    /\ fs \in F
    /\ pc = "start"
    /\ targetPath = NoEntry
    /\ backupPath = NoEntry
    /\ closed = FALSE
    /\ error = ""
    /\ restore = "none"
    /\ calls = <<>>
    /\ faulted = FALSE
    /\ fs0 = fs
    /\ fsOpen = fs
    /\ fsFirst = fs
    /\ selected = NoChoice
    /\ shown = <<>>
    /\ awaited = NoAwait
    /\ listed = NoListing
    /\ probed = NoProbe

\* createLinkTransaction and its transaction used directly, no handler running.
Init == Fresh(InitialFS) /\ hpc = "idle" /\ Quiet

\* createLinkTransaction(currentSessionDir, t) at some time stamp.
Construct(t) ==
    /\ \E stamp \in 0..MaxStamp, faults \in SUBSET CreateFaults :
          LET r == createLinkTransaction(fs, Cur, t, stamp, faults) IN
          /\ fs' = r.fs
          /\ pc' = IF r.error = "" THEN "open" ELSE "threw"
          /\ targetPath' = t
          /\ backupPath' = r.backupPath
          /\ error' = r.error
          /\ restore' = r.restore
          /\ faulted' = (r # createLinkTransaction(fs, Cur, t, stamp, {}))
          /\ fsOpen' = r.fs
          /\ fsFirst' = r.fs
    /\ UNCHANGED <<closed, calls, fs0>>

Create ==
    /\ pc = "start"
    /\ \E t \in Targets : Construct(t)
    /\ UNCHANGED <<hvars, pure, rest>>

Finalize(op, r, clean) ==
    /\ fs' = r.fs
    /\ closed' = r.closed
    /\ calls' = Append(calls, [op |-> op, threw |-> r.threw])
    /\ faulted' = (faulted \/ r # clean)
    /\ fsFirst' = IF calls = <<>> THEN r.fs ELSE fsFirst
    /\ UNCHANGED <<pc, targetPath, backupPath, error, restore, fs0, fsOpen>>

\* transaction.rollback()
Rollback ==
    /\ pc = "open"
    /\ Len(calls) < MaxCalls
    /\ \E faults \in SUBSET FinalizeFaults :
          Finalize("rollback", rollback(fs, closed, Cur, backupPath, faults),
                   rollback(fs, closed, Cur, backupPath, {}))
    /\ UNCHANGED <<hvars, pure, rest>>

\* transaction.commit()
Commit ==
    /\ pc = "open"
    /\ Len(calls) < MaxCalls
    /\ \E faults \in SUBSET FinalizeFaults :
          Finalize("commit", commit(fs, closed, backupPath, faults),
                   commit(fs, closed, backupPath, {}))
    /\ UNCHANGED <<hvars, pure, rest>>

Next == Create \/ Rollback \/ Commit

Spec == Init /\ [][Next]_vars

(***************************************************************************)
(* The /link-sessions command handler.  hpc is where the handler stands:   *)
(* at an await ("select", "confirm", "warn", "list", "askNew",             *)
(* "newSession", "pickSession", "switch") or before a call on the          *)
(* transaction ("create", "rollback", "catch", "commit").  What the user   *)
(* answers and what the awaited calls return (or that they reject) is      *)
(* chosen freely.                                                          *)
(***************************************************************************)
currentSessionDir == Cur
currentFolderName == basename(currentSessionDir)
sessionsRoot == dirname(currentSessionDir)

TitleLink == "Link sessions?"
TitleWarning == "Permanent deletion warning"
TitleNoSessions == "No sessions found"

\* An awaited call came back.
Returned(call, result) == awaited' = [call |-> call, result |-> result]

\* await ctx.ui.confirm(title, ...) returned answer.
Confirmed(title, answer) == shown' = Append(shown, [title |-> title, answer |-> answer])

\* From the call to the folder picker: hasUI, the session directory, the
\* sessions root made, the folders listed.
HStart ==
    /\ hpc = "start"
    /\ \E hasUI, hasDir, mkdirFails \in BOOLEAN, unreadable \in {{}, {sessionsRoot}} :
          IF ~hasUI \/ ~hasDir THEN hpc' = "done" /\ fs' = fs
          ELSE LET m == mkdirSync(fs, sessionsRoot, mkdirFails)
                   l == listFolderChoices(m.fs, sessionsRoot, currentFolderName, unreadable)
               IN  /\ fs' = m.fs
                   /\ hpc' = IF m.threw \/ l.threw THEN "threw"
                             ELSE IF l.choices = <<>> THEN "done"
                             ELSE "select"
    /\ UNCHANGED <<pc, targetPath, backupPath, closed, error, restore, calls,
                   faulted, fs0, fsOpen, fsFirst, selected, shown, awaited,
                   pure, rest>>

\* The folder picker returned: nothing, a folder, or it rejected.
HPick ==
    /\ hpc = "select"
    /\ LET choices == listFolderChoices(fs, sessionsRoot, currentFolderName, {}).choices IN
       \/ Returned("selectFolderWithPreview", "none") /\ hpc' = "done"
          /\ UNCHANGED selected
       \/ Returned("selectFolderWithPreview", "rejected") /\ hpc' = "threw"
          /\ UNCHANGED selected
       \/ \E i \in DOMAIN choices, lstatFails \in BOOLEAN :
             /\ Returned("selectFolderWithPreview", "folder")
             /\ selected' = choices[i]
             /\ hpc' = IF choices[i].isCurrent THEN "list"
                       ELSE IF getPathKind(fs, currentSessionDir, lstatFails) = "other"
                            THEN "done"
                       ELSE "confirm"
    /\ UNCHANGED <<txvars, shown, pure, rest>>

\* A faulty variant of HConfirm: the answer to "Link sessions?" is not used.
HConfirmIgnored ==
    /\ hpc = "confirm"
    /\ \E answer \in BOOLEAN : Confirmed(TitleLink, answer)
    /\ hpc' = "create"
    /\ UNCHANGED <<txvars, selected, awaited, pure, rest>>

\* "Link sessions?" was answered.  currentKind was read before the dialog.
HConfirm ==
    /\ hpc = "confirm"
    /\ \/ hpc' = "threw" /\ UNCHANGED shown
       \/ Confirmed(TitleLink, FALSE) /\ hpc' = "done"
       \/ /\ Confirmed(TitleLink, TRUE)
          /\ \E unreadable \in {{}, {currentSessionDir}} :
                hpc' = IF /\ getPathKind(fs, currentSessionDir, FALSE) = "directory"
                          /\ countSessionFiles(fs, currentSessionDir, unreadable) > 1
                       THEN "warn"
                       ELSE "create"
    /\ UNCHANGED <<txvars, selected, awaited, pure, rest>>

\* "Permanent deletion warning" was answered.
HWarn ==
    /\ hpc = "warn"
    /\ \/ hpc' = "threw" /\ UNCHANGED shown
       \/ Confirmed(TitleWarning, FALSE) /\ hpc' = "done"
       \/ Confirmed(TitleWarning, TRUE) /\ hpc' = "create"
    /\ UNCHANGED <<txvars, selected, awaited, pure, rest>>

\* try { transaction = createLinkTransaction(...) } catch { notify; return }
HCreate ==
    /\ hpc = "create"
    /\ Construct(selected.path)
    /\ hpc' = IF pc' = "open" THEN "list" ELSE "done"
    /\ UNCHANGED <<selected, shown, awaited, pure, rest>>

\* SessionManager.list returned (no sessions, some sessions) or rejected.
HList ==
    /\ hpc = "list"
    /\ \/ Returned("list", "empty") /\ hpc' = "askNew"
       \/ Returned("list", "sessions") /\ hpc' = "pickSession"
       \/ Returned("list", "rejected") /\ hpc' = "catch"
    /\ UNCHANGED <<txvars, selected, shown, pure, rest>>

\* "No sessions found" was answered, or the dialog rejected.
HAskNew ==
    /\ hpc = "askNew"
    /\ \/ Confirmed(TitleNoSessions, TRUE) /\ Returned("confirm", "yes")
          /\ hpc' = "newSession"
       \/ Confirmed(TitleNoSessions, FALSE) /\ Returned("confirm", "no")
          /\ hpc' = "rollback"
       \/ Returned("confirm", "rejected") /\ hpc' = "catch" /\ UNCHANGED shown
    /\ UNCHANGED <<txvars, selected, pure, rest>>

\* A faulty variant of HNewSession: result.cancelled is not looked at.
HNewSessionIgnoresCancel ==
    /\ hpc = "newSession"
    /\ \/ Returned("newSession", "ok") /\ hpc' = "commit"
       \/ Returned("newSession", "cancelled") /\ hpc' = "commit"
       \/ Returned("newSession", "rejected") /\ hpc' = "catch"
    /\ UNCHANGED <<txvars, selected, shown, pure, rest>>

\* ctx.newSession() returned (cancelled or not) or rejected.
HNewSession ==
    /\ hpc = "newSession"
    /\ \/ Returned("newSession", "ok") /\ hpc' = "commit"
       \/ Returned("newSession", "cancelled") /\ hpc' = "rollback"
       \/ Returned("newSession", "rejected") /\ hpc' = "catch"
    /\ UNCHANGED <<txvars, selected, shown, pure, rest>>

\* selectSessionToResume returned a session, returned none, or rejected.
HPickSession ==
    /\ hpc = "pickSession"
    /\ \/ Returned("selectSessionToResume", "session") /\ hpc' = "switch"
       \/ Returned("selectSessionToResume", "none") /\ hpc' = "rollback"
       \/ Returned("selectSessionToResume", "rejected") /\ hpc' = "catch"
    /\ UNCHANGED <<txvars, selected, shown, pure, rest>>

\* ctx.switchSession() returned (cancelled or not) or rejected.
HSwitch ==
    /\ hpc = "switch"
    /\ \/ Returned("switchSession", "ok") /\ hpc' = "commit"
       \/ Returned("switchSession", "cancelled") /\ hpc' = "rollback"
       \/ Returned("switchSession", "rejected") /\ hpc' = "catch"
    /\ UNCHANGED <<txvars, selected, shown, pure, rest>>

\* transaction?.rollback() with the given faults (nothing when no transaction
\* was created); hpc becomes thrown when the call throws, done otherwise.
HRollbackCall(thrown) ==
    IF pc # "open" THEN hpc' = "done" /\ UNCHANGED txvars
    ELSE /\ \E faults \in SUBSET FinalizeFaults :
               Finalize("rollback",
                        rollback(fs, closed, currentSessionDir, backupPath, faults),
                        rollback(fs, closed, currentSessionDir, backupPath, {}))
         /\ hpc' = IF calls'[Len(calls')].threw THEN thrown ELSE "done"

\* transaction?.rollback(); notify; return -- inside the try block: when the
\* call throws, control passes to the catch block.
HTryRollback ==
    /\ hpc = "rollback"
    /\ HRollbackCall("catch")
    /\ UNCHANGED <<selected, shown, awaited, pure, rest>>

\* catch (err) { transaction?.rollback(); notify }: when the call throws
\* here, the handler rejects.
HCatch ==
    /\ hpc = "catch"
    /\ HRollbackCall("threw")
    /\ UNCHANGED <<selected, shown, awaited, pure, rest>>

\* transaction?.commit(); notify
HTryCommit ==
    /\ hpc = "commit"
    /\ IF pc # "open" THEN UNCHANGED txvars
       ELSE \E faults \in SUBSET FinalizeFaults :
               Finalize("commit", commit(fs, closed, backupPath, faults),
                        commit(fs, closed, backupPath, {}))
    /\ hpc' = "done"
    /\ UNCHANGED <<selected, shown, awaited, pure, rest>>

HInit == Fresh(InitialFS) /\ hpc = "start" /\ Quiet

HNext ==
    \/ HStart \/ HPick \/ HConfirm \/ HWarn \/ HCreate \/ HList
    \/ HAskNew \/ HNewSession \/ HPickSession \/ HSwitch
    \/ HTryRollback \/ HCatch \/ HTryCommit

HandlerSpec == HInit /\ [][HNext]_vars

(***************************************************************************)
(* listFolderChoices called on its own: on a filesystem a command run      *)
(* starts from or one a transaction was just created in, with one of the   *)
(* roots, current names and sets of unreadable directories below.          *)
(***************************************************************************)
\* The roots listed: the sessions root, a missing path, a regular file and
\* a link (to a directory or dangling).
ListRoots == {Root, Gone, Reg, Lnk}
CurrentNames == {"cur", "tgt", "none"}
Unreadables == {{}, {Root}, {Old}}

ListFS ==
    InitialFS \cup {createLinkTransaction(f, Cur, t, 0, {}).fs : f \in InitialFS, t \in {Tgt, Lnk}}

PureInit == Fresh(ListFS) /\ hpc = "idle" /\ Quiet

List ==
    /\ listed = NoListing
    /\ \E root \in ListRoots, name \in CurrentNames, unreadable \in Unreadables :
          listed' = [root |-> root, name |-> name, unreadable |-> unreadable,
                     result |-> listFolderChoices(fs, root, name, unreadable)]
    /\ UNCHANGED <<txvars, hvars, probed, rest>>

ListSpec == PureInit /\ [][List]_vars

(***************************************************************************)
(* getPathKind, isDirectoryLike and safeRemovePath called on their own, on *)
(* the same filesystems, with at most one call inside them failing for a   *)
(* reason outside the filesystem.                                          *)
(***************************************************************************)
\* The paths tried: every entry, and paths without one (unused names, names
\* below a file, below a missing directory and below a link).
Probes ==
    DOMAIN fs \cup {Cur, Gone, Bak0, Reg \o <<"x">>, Gone \o <<"x">>, Lnk \o <<"sub">>}

\* The one call that fails inside safeRemovePath or getPathKind, if any.
RemoveFaults == {{}, {"lstat"}, {"rm"}, {"rmPartial"}}

Probe ==
    /\ probed = NoProbe
    /\ \E p \in Probes, faults \in RemoveFaults :
          probed' = [path |-> p, faults |-> faults,
                     kind |-> getPathKind(fs, p, "lstat" \in faults),
                     directoryLike |-> isDirectoryLike(fs, p),
                     removed |-> safeRemovePathCall(fs, p, faults)]
    /\ UNCHANGED <<txvars, hvars, listed, rest>>

ProbeSpec == PureInit /\ [][Probe]_vars

(***************************************************************************)
(* The folder picker of selectFolderWithPreview: the select list and its   *)
(* preview, with the previews built asynchronously.  picker holds the      *)
(* highlighted item, previewText, previewCache, previewRequestId and the   *)
(* calls of buildFolderPreviewText that have not settled yet.              *)
(***************************************************************************)
\* The most loadPreview calls that start a request.
MaxRequests == 3

\* The folders offered: those of a sessions root with /r/cur a directory.
PickerFS ==
    MkFs(Outside \cup Siblings
         \cup {<< Cur, Dir >>, << Cur \o <<"a.jsonl">>, File("a") >>,
               << Lnk, Link(Tgt) >>})
folderChoices == listFolderChoices(PickerFS, sessionsRoot, currentFolderName, {}).choices
items == {folderChoices[i].name : i \in DOMAIN folderChoices}

\* What previewText can show.
Loading == [kind |-> "loading", folder |-> ""]
PreviewOf(name) == [kind |-> "preview", folder |-> name]
FailedFor(name) == [kind |-> "failed", folder |-> name]
NotCached == [kind |-> "none", folder |-> ""]

\* Lines 68-74: the component as it is made, before the first loadPreview.
NewPicker ==
    [state |-> "open", selected |-> "", previewText |-> Loading,
     previewCache |-> [n \in items |-> NotCached], previewRequestId |-> 0,
     pending |-> {}]

\* Lines 80-98: loadPreview(folderName) up to the call of
\* buildFolderPreviewText; the item is the highlighted one.
loadPreview(p, folderName) ==
    IF p.previewCache[folderName] # NotCached
    THEN [p EXCEPT !.selected = folderName,
                   !.previewText = p.previewCache[folderName]]
    ELSE [p EXCEPT !.selected = folderName,
                   !.previewRequestId = @ + 1,
                   !.previewText = Loading,
                   !.pending = @ \cup {[reqId |-> p.previewRequestId + 1,
                                        folderName |-> folderName]}]

\* Lines 100-113: the then and catch callbacks of one request.
settle(p, req, text) ==
    LET cached == [p EXCEPT !.previewCache[req.folderName] = text,
                            !.pending = @ \ {req}]
    IN  IF req.reqId # p.previewRequestId THEN cached
        ELSE [cached EXCEPT !.previewText = text]

\* Lines 120-122: the component is made and the first item's preview loaded.
PickerOpen ==
    /\ picker.state = "none"
    /\ picker' = loadPreview(NewPicker, folderChoices[1].name)
    /\ UNCHANGED <<txvars, hvars, pure, step>>

\* selectList.onSelectionChange: another item is highlighted.
SelectionChange ==
    /\ picker.state = "open"
    /\ \E name \in items \ {picker.selected} :
          /\ picker.previewCache[name] = NotCached =>
                picker.previewRequestId < MaxRequests
          /\ picker' = loadPreview(picker, name)
    /\ UNCHANGED <<txvars, hvars, pure, step>>

\* buildFolderPreviewText resolved: the then callback runs.
PreviewResolved ==
    /\ picker.state = "open"
    /\ \E req \in picker.pending :
          picker' = settle(picker, req, PreviewOf(req.folderName))
    /\ UNCHANGED <<txvars, hvars, pure, step>>

\* buildFolderPreviewText rejected: the catch callback runs.
PreviewRejected ==
    /\ picker.state = "open"
    /\ \E req \in picker.pending :
          picker' = settle(picker, req, FailedFor(req.folderName))
    /\ UNCHANGED <<txvars, hvars, pure, step>>

\* selectList.onSelect or onCancel: done(...) closes the picker.
PickerDone ==
    /\ picker.state = "open"
    /\ picker' = [picker EXCEPT !.state = "closed"]
    /\ UNCHANGED <<txvars, hvars, pure, step>>

PickerInit ==
    /\ Fresh({PickerFS})
    /\ hpc = "idle"
    /\ step = NoStep
    /\ picker = NoPicker

PickerNext ==
    \/ PickerOpen \/ SelectionChange \/ PreviewResolved \/ PreviewRejected
    \/ PickerDone

PickerSpec == PickerInit /\ [][PickerNext]_vars

(***************************************************************************)
(* createLinkTransaction, rollback and commit taken one filesystem         *)
(* operation at a time, so that every state between two operations is a    *)
(* state of the specification: what is on disk when the process stops      *)
(* there.  step.next is the operation that runs next, step.currentKind     *)
(* the local currentKind.                                                  *)
(***************************************************************************)
At(next) == step.next = next
Goto(next) == step' = [step EXCEPT !.next = next]

\* Lines 150-160: the two checks; nothing is written.
SBegin ==
    /\ At("begin")
    /\ \E t \in Targets, lstatFails \in BOOLEAN :
          LET currentKind == getPathKind(fs, Cur, lstatFails) IN
          /\ targetPath' = t
          /\ faulted' = (faulted \/ lstatFails)
          /\ IF ~isDirectoryLike(fs, t)
             THEN pc' = "threw" /\ error' = ErrTarget /\ Goto("threw")
             ELSE IF currentKind = "other"
             THEN pc' = "threw" /\ error' = ErrRefused /\ Goto("threw")
             ELSE /\ UNCHANGED <<pc, error>>
                  /\ step' = [next |-> "mkdir", currentKind |-> currentKind]
    /\ UNCHANGED <<fs, backupPath, closed, restore, calls, fs0, fsOpen, fsFirst,
                   hvars, pure, picker>>

\* Line 162: mkdirSync(dirname(resolvedCurrentDir), {recursive: true}).
SMkdir ==
    /\ At("mkdir")
    /\ \E fail \in BOOLEAN :
          LET made == mkdirSync(fs, dirname(Cur), fail) IN
          /\ fs' = made.fs
          /\ faulted' = (faulted \/ fail)
          /\ IF made.threw
             THEN pc' = "threw" /\ error' = "mkdirSync" /\ Goto("threw")
             ELSE /\ UNCHANGED <<pc, error>>
                  /\ Goto(IF step.currentKind = "missing" THEN "symlink" ELSE "rename")
    /\ UNCHANGED <<targetPath, backupPath, closed, restore, calls, fs0, fsOpen, fsFirst,
                   hvars, pure, picker>>

\* A faulty variant of SRename: the entry is removed instead of moved aside.
SRemoveInsteadOfRename ==
    /\ At("rename")
    /\ fs' = safeRemovePath(fs, Cur, {})
    /\ Goto("symlink")
    /\ UNCHANGED <<pc, targetPath, backupPath, closed, error, restore, calls,
                   faulted, fs0, fsOpen, fsFirst,
                   hvars, pure, picker>>

\* Lines 165-167: the backup name is chosen and the entry renamed to it.
SRename ==
    /\ At("rename")
    /\ \E stamp \in 0..MaxStamp, fail \in BOOLEAN :
          LET name == makeUniqueBackupPath(fs, Cur, stamp)
              moved == renameSync(fs, Cur, name, fail)
          IN  /\ backupPath' = name
              /\ fs' = moved.fs
              /\ faulted' = (faulted \/ fail)
              /\ IF moved.threw
                 THEN pc' = "threw" /\ error' = "renameSync" /\ Goto("threw")
                 ELSE UNCHANGED <<pc, error>> /\ Goto("symlink")
    /\ UNCHANGED <<targetPath, closed, restore, calls, fs0, fsOpen, fsFirst,
                   hvars, pure, picker>>

\* Line 171: symlinkSync; lines 173-174: where its failure leads.
SSymlink ==
    /\ At("symlink")
    /\ \E fail \in BOOLEAN :
          LET linked == symlinkSync(fs, targetPath, Cur, fail) IN
          /\ fs' = linked.fs
          /\ fsOpen' = IF linked.threw THEN fsOpen ELSE linked.fs
          /\ faulted' = (faulted \/ fail)
          /\ IF ~linked.threw
             THEN pc' = "open" /\ UNCHANGED error /\ Goto("returned")
             ELSE IF backupPath # NoEntry /\ existsSync(fs, backupPath)
             THEN UNCHANGED <<pc, error>> /\ Goto("restore")
             ELSE pc' = "threw" /\ error' = "symlinkSync" /\ Goto("threw")
    /\ UNCHANGED <<targetPath, backupPath, closed, restore, calls, fs0, fsFirst,
                   hvars, pure, picker>>

\* Lines 175-181: the rename back, its error ignored; the link's error leaves.
SRestore ==
    /\ At("restore")
    /\ \E fail \in BOOLEAN :
          LET back == renameSync(fs, backupPath, Cur, fail) IN
          /\ fs' = back.fs
          /\ faulted' = (faulted \/ fail)
          /\ restore' = IF back.threw THEN "failed" ELSE "done"
    /\ pc' = "threw"
    /\ error' = "symlinkSync"
    /\ Goto("threw")
    /\ UNCHANGED <<targetPath, backupPath, closed, calls, fs0, fsOpen, fsFirst,
                   hvars, pure, picker>>

\* rollback() is called: lines 188-189.
SRollback ==
    /\ At("returned")
    /\ ~closed
    /\ closed' = TRUE
    /\ Goto("unlink")
    /\ UNCHANGED <<fs, pc, targetPath, backupPath, error, restore, calls,
                   faulted, fs0, fsOpen, fsFirst,
                   hvars, pure, picker>>

\* The call of rollback() or commit() is over.
Ended(op, threw) ==
    /\ calls' = Append(calls, [op |-> op, threw |-> threw])
    /\ fsFirst' = fs'
    /\ Goto("closed")

\* Line 190: safeRemovePath(resolvedCurrentDir); line 192: what comes next.
SUnlink ==
    /\ At("unlink")
    /\ \E faults \in RemoveFaults :
          LET removed == safeRemovePath(fs, Cur, faults) IN
          /\ fs' = removed
          /\ faulted' = (faulted \/ faults # {})
          /\ IF backupPath # NoEntry /\ existsSync(removed, backupPath)
             THEN Goto("renameBack") /\ UNCHANGED <<calls, fsFirst>>
             ELSE Ended("rollback", FALSE)
    /\ UNCHANGED <<pc, targetPath, backupPath, closed, error, restore, fs0, fsOpen,
                   hvars, pure, picker>>

\* Line 193: renameSync(backupPath, resolvedCurrentDir), its error not caught.
SRenameBack ==
    /\ At("renameBack")
    /\ \E fail \in BOOLEAN :
          LET back == renameSync(fs, backupPath, Cur, fail) IN
          /\ fs' = back.fs
          /\ faulted' = (faulted \/ fail)
          /\ Ended("rollback", back.threw)
    /\ UNCHANGED <<pc, targetPath, backupPath, closed, error, restore, fs0, fsOpen,
                   hvars, pure, picker>>

\* commit(), lines 197-202, whole: the removal of the backup.
SCommit ==
    /\ At("returned")
    /\ ~closed
    /\ closed' = TRUE
    /\ \E faults \in RemoveFaults :
          /\ fs' = IF backupPath # NoEntry /\ existsSync(fs, backupPath)
                   THEN safeRemovePath(fs, backupPath, faults)
                   ELSE fs
          /\ faulted' = (faulted \/ faults # {})
    /\ Ended("commit", FALSE)
    /\ UNCHANGED <<pc, targetPath, backupPath, error, restore, fs0, fsOpen,
                   hvars, pure, picker>>

StepInit ==
    /\ Fresh(InitialFS)
    /\ hpc = "idle"
    /\ step = [NoStep EXCEPT !.next = "begin"]
    /\ picker = NoPicker

StepNext ==
    \/ SBegin \/ SMkdir \/ SRename \/ SSymlink \/ SRestore
    \/ SRollback \/ SUnlink \/ SRenameBack \/ SCommit

StepSpec == StepInit /\ [][StepNext]_vars

(***************************************************************************)
(* Vocabulary of the properties.                                           *)
(***************************************************************************)
\* The entry at p (its kind, and the whole tree below a directory) is in g
\* what it is in f.
SameEntry(f, g, p) ==
    /\ p \in DOMAIN f
    /\ p \in DOMAIN g
    /\ Subtree(f, p) = Subtree(g, p)

Absent(f, p) == p \notin DOMAIN f

\* The entries of the sessions root other than the session directory.
SiblingsOf(f) == {p \in DOMAIN f : Len(p) = 2 /\ dirname(p) = Root /\ p # Cur}

\* The transaction's own backup path: the name it generated, which held no
\* entry that existsSync could see when it was generated.
OwnBackup(p) == p = backupPath /\ ~existsSync(fs0, p)

\* Every sibling other than the transaction's own backup path is untouched:
\* none is added, removed, renamed or changed.
SiblingsUntouched ==
    \A p \in SiblingsOf(fs0) \cup SiblingsOf(fs) : OwnBackup(p) \/ SameEntry(fs0, fs, p)

\* No entry is left at the transaction's backup path.
NoBackupLeft == backupPath = NoEntry \/ Absent(fs, backupPath)

\* The directory the target dereferenced to before the call holds what it held.
TargetDirUntouched ==
    LET t == realpath(fs0, targetPath) IN t # NoEntry /\ SameEntry(fs0, fs, t)

\* The kind of /r/cur before the call, its last component not followed.
PriorKind ==
    IF Cur \notin DOMAIN fs0 THEN "missing"
    ELSE IF fs0[Cur].kind = "link" THEN "symlink"
    ELSE IF fs0[Cur].kind = "dir" THEN "directory"
    ELSE "other"

FirstCall(op) == calls # <<>> /\ calls[1].op = op

\* The directory /r/cur linked to before the call, when it was such a link.
OldTarget == realpath(fs0, Cur)
LinkedToDirectory == PriorKind = "symlink" /\ isDirectoryLike(fs0, Cur)

\* The parent of /r/cur is a directory or can be created.
ParentUsable == Root \notin DOMAIN fs0 \/ fs0[Root].kind = "dir"

\* The entry /r/cur had before the call is at p, whole.
OriginalAt(p) ==
    /\ Cur \in DOMAIN fs0
    /\ p \in DOMAIN fs
    /\ Subtree(fs, p) = Subtree(fs0, Cur)

\* Nothing that was there before the call is changed or gone, and all that
\* is new are directories on the way to /r/cur.
OnlyAncestorsAdded ==
    /\ \A p \in DOMAIN fs0 : p \in DOMAIN fs /\ fs[p] = fs0[p]
    /\ \A p \in DOMAIN fs \ DOMAIN fs0 : IsPrefix(p, dirname(Cur)) /\ fs[p] = Dir

(***************************************************************************)
(* The claims.                                                             *)
(***************************************************************************)

\* C1: whenever the target dereferences to a directory and /r/cur is missing,
\* a directory or a symlink, createLinkTransaction followed by commit() ends
\* with /r/cur a symbolic link to the resolved target, the target directory's
\* contents unchanged, every sibling unchanged and no backup left.  (Stated
\* for the runs in which no primitive fails for an outside reason.)
C1_CommitRoundTrip ==
    (pc = "open" /\ ~faulted /\ FirstCall("commit")) =>
        /\ Cur \in DOMAIN fs
        /\ fs[Cur] = Link(targetPath)
        /\ TargetDirUntouched
        /\ SiblingsUntouched
        /\ NoBackupLeft

\* C2: whenever /r/cur is a directory or a symlink, createLinkTransaction
\* followed by rollback() restores /r/cur to its prior kind and contents,
\* leaves the old and the new target's contents unmodified and leaves no
\* backup.  (Stated for the runs in which no primitive fails for an outside
\* reason.)
C2_RollbackRoundTrip ==
    (pc = "open" /\ ~faulted /\ FirstCall("rollback")
        /\ PriorKind \in {"directory", "symlink"}) =>
        /\ SameEntry(fs0, fs, Cur)
        /\ TargetDirUntouched
        /\ (LinkedToDirectory => SameEntry(fs0, fs, OldTarget))
        /\ NoBackupLeft

\* C3: of the commit() and rollback() calls made on one transaction only the
\* first takes effect: after any sequence of calls the transaction is closed
\* and the filesystem is what the first call left.
C3_OnlyFirstCallActs ==
    calls # <<>> => closed /\ fs = fsFirst

\* A commit() that changed the filesystem, then a rollback().
C3_Witness ==
    /\ Len(calls) >= 2
    /\ calls[1].op = "commit"
    /\ calls[2].op = "rollback"
    /\ fsFirst # fsOpen
    /\ fs = fsFirst

\* C4, as claimed: when createLinkTransaction raises, whatever step failed,
\* the filesystem is exactly what it was before the call.
C4_AllOrNothing ==
    pc = "threw" => fs = fs0

\* C4, amended: createLinkTransaction either returns with /r/cur linked to the
\* target and the displaced entry whole at the backup path, or raises, and
\* then nothing outside /r/cur and the backup path is changed or removed, all
\* that is added outside them are missing directories on the way to /r/cur,
\* and the original entry is back at /r/cur with no backup left, unless the
\* restoring rename failed as well: then /r/cur is vacant and the original
\* entry is whole at the backup path.
C4_ConstructionOutcome ==
    /\ (pc = "open" /\ calls = <<>>) =>
          /\ Cur \in DOMAIN fs
          /\ fs[Cur] = Link(targetPath)
          /\ (PriorKind # "missing" => OriginalAt(backupPath))
    /\ pc = "threw" =>
          /\ \A p \in DOMAIN fs0 :
                IsPrefix(Cur, p) \/ OwnBackup(p) \/ (p \in DOMAIN fs /\ fs[p] = fs0[p])
          /\ \A p \in DOMAIN fs \ DOMAIN fs0 :
                \/ IsPrefix(p, dirname(Cur)) /\ fs[p] = Dir
                \/ IsPrefix(Cur, p)
                \/ IsPrefix(backupPath, p)
          /\ IF restore = "failed"
             THEN Absent(fs, Cur) /\ OriginalAt(backupPath)
             ELSE /\ (PriorKind = "missing" => Absent(fs, Cur))
                  /\ (PriorKind # "missing" => SameEntry(fs0, fs, Cur))
                  /\ \A p \in DOMAIN fs \ DOMAIN fs0 : ~IsPrefix(backupPath, p)

\* The link could not be made and the directory was renamed back.
C4_Witness ==
    /\ pc = "threw"
    /\ error = "symlinkSync"
    /\ restore = "done"
    /\ PriorKind = "directory"
    /\ fs = fs0

\* C5: createLinkTransaction raises "Target is not a directory" whenever the
\* target does not dereference to a directory, and "Refusing to overwrite ..."
\* whenever the target is valid and /r/cur is neither a directory nor a
\* symlink; in both cases the filesystem is unchanged.
C5_ValidationErrors ==
    /\ (pc # "start" /\ ~isDirectoryLike(fs0, targetPath)) =>
          pc = "threw" /\ error = ErrTarget /\ fs = fs0
    /\ (pc # "start" /\ isDirectoryLike(fs0, targetPath) /\ PriorKind = "other") =>
          pc = "threw" /\ error = ErrRefused /\ fs = fs0

\* A regular file at /r/cur was refused.
C5_Witness ==
    /\ pc = "threw"
    /\ PriorKind = "other"
    /\ isDirectoryLike(fs0, targetPath)
    /\ error = ErrRefused

C7_CommitKeepsOldTarget ==
    (pc = "open" /\ FirstCall("commit") /\ LinkedToDirectory) =>
        /\ SameEntry(fs0, fs, OldTarget)
        /\ \A p \in DOMAIN fsOpen : p = backupPath \/ (p \in DOMAIN fs /\ fs[p] = fsOpen[p])
        /\ DOMAIN fs \subseteq DOMAIN fsOpen

\* The displaced link was removed by commit().
C7_Witness ==
    /\ pc = "open"
    /\ FirstCall("commit")
    /\ LinkedToDirectory
    /\ backupPath \in DOMAIN fsOpen
    /\ Absent(fs, backupPath)
    /\ SameEntry(fs0, fs, OldTarget)

C9_FinalizeNeverRaises ==
    \A i \in 1..Len(calls) : ~calls[i].threw

\* C10: getPathKind returns "symlink" for every path that is itself a
\* symbolic link, whatever it points at.
C10_LinkIsSymlink ==
    \A p \in DOMAIN fs : fs[p].kind = "link" => getPathKind(fs, p, FALSE) = "symlink"

(***************************************************************************)
(* Claims about the path primitives, over every filesystem a transaction   *)
(* starts from or reaches.                                                 *)
(***************************************************************************)
PathKinds == {"missing", "symlink", "directory", "other"}

HasProbed == probed # NoProbe

\* C11: getPathKind always returns a kind: "missing" for every path without
\* an entry, "directory" for a directory that is no link, "other" for any
\* other entry that is no link, and "other" when lstatSync fails.
C11_KindIsTotal ==
    HasProbed =>
        LET k == probed.kind
            l == lpath(fs, probed.path)
            lstatFails == "lstat" \in probed.faults
        IN  /\ k \in PathKinds
            /\ (l = NoEntry => k = "missing")
            /\ (l # NoEntry /\ ~lstatFails /\ fs[l].kind = "dir" => k = "directory")
            /\ (l # NoEntry /\ ~lstatFails /\ fs[l].kind = "file" => k = "other")
            /\ (existsSync(fs, probed.path) /\ lstatFails => k = "other")

\* lstatSync failed on the directory /r/cur: its kind is "other".
C11_Witness ==
    /\ HasProbed
    /\ probed.path = Cur
    /\ Cur \in DOMAIN fs
    /\ fs[Cur].kind = "dir"
    /\ "lstat" \in probed.faults
    /\ probed.kind = "other"

\* What is left of filesystem f in g: g has no entry f lacks and changes none.
Remains(f, g) ==
    /\ DOMAIN g \subseteq DOMAIN f
    /\ \A q \in DOMAIN g : g[q] = f[q]

\* C12: for every path that is itself a symbolic link, safeRemovePath
\* removes the link entry and changes no other entry.
C12_RemovesLinkOnly ==
    \A p \in DOMAIN fs :
        fs[p].kind = "link" =>
            LET g == safeRemovePath(fs, p, {}) IN
            /\ p \notin DOMAIN g
            /\ DOMAIN g = DOMAIN fs \ {p}
            /\ Remains(fs, g)

\* C13: safeRemovePath never throws; it changes nothing when the path does
\* not exist; it removes a path that is no link with everything below it;
\* when a call inside fails, every entry still there is as it was.
C13_RemoveNeverRaises ==
    (HasProbed /\ probed.path # <<>>) =>
        LET r == probed.removed
            l == lpath(fs, probed.path)
        IN  /\ ~r.threw
            /\ Remains(fs, r.fs)
            /\ (~existsSync(fs, probed.path) => r.fs = fs)
            /\ (existsSync(fs, probed.path) /\ probed.faults = {} /\ fs[l].kind # "link"
                   => DOMAIN r.fs = DOMAIN fs \ Under(fs, l))

\* rmSync emptied the directory /r/cur and then failed: nothing raised, the
\* directory itself is left.
C13_Witness ==
    /\ HasProbed
    /\ probed.path = Cur
    /\ probed.faults = {"rmPartial"}
    /\ Sub \in DOMAIN fs
    /\ ~probed.removed.threw
    /\ DOMAIN probed.removed.fs = (DOMAIN fs \ Under(fs, Cur)) \cup {Cur}

\* C14: makeUniqueBackupPath returns a path at which there is no entry: the
\* name without a counter when that name is unused, otherwise the name with
\* the smallest counter n >= 1 that is unused.
C14_BackupPathUnused ==
    \A stamp \in 0..MaxStamp :
        LET b == makeUniqueBackupPath(fs, Cur, stamp) IN
        /\ lpath(fs, b) = NoEntry
        /\ \E n \in 0..Cardinality(DOMAIN fs) :
              /\ b = candidate(Cur, stamp, n)
              /\ \A m \in 0..(n - 1) : lpath(fs, candidate(Cur, stamp, m)) # NoEntry

(***************************************************************************)
(* Claims about listFolderChoices, countSessionFiles and isDirectoryLike.  *)
(***************************************************************************)
\* The entries directly inside the directory root resolves to.
Children(f, root) ==
    LET r == realpath(f, root) IN
    IF r = NoEntry THEN {}
    ELSE {q \in DOMAIN f : Len(q) = Len(r) + 1 /\ IsPrefix(r, q)}

\* Following links entry by entry from the entry at q, at most n of them:
\* the entry reached that is no link, or NoEntry.
RECURSIVE Follow(_, _, _)
Follow(f, q, n) ==
    IF q = NoEntry THEN NoEntry
    ELSE IF f[q].kind # "link" THEN q
    ELSE IF n = 0 THEN NoEntry
    ELSE Follow(f, lpath(f, f[q].target), n - 1)

EndsAtDirectory(f, p) ==
    LET e == Follow(f, lpath(f, p), MaxHops) IN
    e # NoEntry /\ f[e].kind = "dir"

\* A directory, or a link that leads to one.
IsFolder(f, q) ==
    \/ f[q].kind = "dir"
    \/ f[q].kind = "link" /\ EndsAtDirectory(f, q)

\* The listing c of root has one entry per folder directly in root, none else.
ExactlyFolders(f, root, c) ==
    /\ \A q \in Children(f, root) :
          Cardinality({i \in DOMAIN c : c[i].name = basename(q)})
              = IF IsFolder(f, q) THEN 1 ELSE 0
    /\ \A i \in DOMAIN c :
          /\ c[i].path = Append(root, c[i].name)
          /\ \E q \in Children(f, root) : basename(q) = c[i].name

HasListed == listed # NoListing

\* C15 as stated: listFolderChoices returns the empty sequence when root
\* does not exist, and otherwise returns exactly one entry per direct child
\* that is a directory or a link leading to one.
C15_OneEntryPerFolder ==
    (HasListed /\ listed.unreadable = {}) =>
        /\ ~listed.result.threw
        /\ (~existsSync(fs, listed.root) => listed.result.choices = <<>>)
        /\ (existsSync(fs, listed.root)
               => ExactlyFolders(fs, listed.root, listed.result.choices))

\* C15 amended: the empty sequence when root does not exist; one entry per
\* folder directly in root when root leads to a directory that can be read;
\* the call throws when root exists and is no directory or cannot be read.
C15_OneEntryPerFolderOfDirectory ==
    HasListed =>
        LET r == listed.result
            readable == /\ isDirectoryLike(fs, listed.root)
                        /\ realpath(fs, listed.root) \notin listed.unreadable
        IN  /\ (~existsSync(fs, listed.root) => r = Listed(<<>>))
            /\ (readable => ~r.threw /\ ExactlyFolders(fs, listed.root, r.choices))
            /\ (existsSync(fs, listed.root) /\ ~readable => r.threw)

\* /r/cur is a link to a folder and is listed with the two folders; the
\* regular file and the dangling /r/lnk are not.
C15_Witness ==
    /\ HasListed
    /\ listed.root = Root
    /\ Cur \in DOMAIN fs
    /\ fs[Cur].kind = "link"
    /\ Lnk \in DOMAIN fs
    /\ Reg \in DOMAIN fs
    /\ ~existsSync(fs, Lnk)
    /\ Len(listed.result.choices) = 3

\* C16: in the listing every current entry precedes every other entry, at
\* most one entry is current, and the other entries are in ascending name
\* order.
C16_CurrentFirstThenByName ==
    HasListed =>
        LET c == listed.result.choices IN
        /\ Cardinality({i \in DOMAIN c : c[i].isCurrent}) <= 1
        /\ \A i, j \in DOMAIN c :
              i < j =>
                 /\ (c[j].isCurrent => c[i].isCurrent)
                 /\ (~c[i].isCurrent /\ ~c[j].isCurrent
                        => localeCompare(c[i].name, c[j].name) < 0)

\* The current folder "tgt" is listed before "cur", which sorts before it.
C16_Witness ==
    /\ HasListed
    /\ listed.name = "tgt"
    /\ Len(listed.result.choices) >= 3
    /\ listed.result.choices[1].name = "tgt"
    /\ listed.result.choices[2].name = "cur"

\* The names of the fixtures that end in ".jsonl".
SessionFileNames ==
    {"a.jsonl", "b.jsonl", "deep.jsonl", "new.jsonl", "old.jsonl", "x.jsonl"}

\* C17: every listed entry's sessionCount is the number of entries directly
\* in the folder it leads to whose name ends in ".jsonl", 0 when the folder
\* cannot be read; isCurrent holds exactly when its name is currentName.
C17_CountAndCurrent ==
    HasListed =>
        LET c == listed.result.choices IN
        \A i \in DOMAIN c :
            /\ c[i].sessionCount =
                  IF realpath(fs, c[i].path) \in listed.unreadable THEN 0
                  ELSE Cardinality({q \in Children(fs, c[i].path) :
                                       basename(q) \in SessionFileNames})
            /\ c[i].isCurrent <=> (c[i].name = listed.name)

\* /r/cur is a link and reports its target's count; the displaced
\* directory with two session files and a text file is listed with 2.
C17_Witness ==
    /\ HasListed
    /\ listed.name = "cur"
    /\ Cur \in DOMAIN fs
    /\ fs[Cur].kind = "link"
    /\ LET c == listed.result.choices IN
       /\ c # <<>>
       /\ c[1].isCurrent
       /\ c[1].sessionCount = 1
       /\ \E i \in DOMAIN c : c[i].name = "cur.bak-0" /\ c[i].sessionCount = 2

\* C18: isDirectoryLike holds exactly when following links from the path
\* ends at a directory; it is false for a path without an entry, a dangling
\* link, a link loop and a path that ends at something else.
C18_DirectoryLikeIffEndsAtDirectory ==
    HasProbed =>
        /\ probed.directoryLike \in BOOLEAN
        /\ probed.directoryLike <=> EndsAtDirectory(fs, probed.path)
        /\ (lpath(fs, probed.path) = NoEntry => ~probed.directoryLike)

\* /r/lnk leads through the link /r/cur to a directory.
C18_Witness ==
    /\ HasProbed
    /\ probed.path = Lnk
    /\ probed.directoryLike
    /\ fs[Lnk] = Link(Cur)
    /\ fs[Cur].kind = "link"

(***************************************************************************)
(* Claims about the /link-sessions handler, under HandlerSpec.             *)
(***************************************************************************)
HandlerOver == hpc \in {"done", "threw"}

\* C19: when the handler is over and it had created a transaction, it has
\* called commit() or rollback() on it exactly once.
C19_FinalizedExactlyOnce ==
    (HandlerOver /\ pc = "open") => Len(calls) = 1

WarningConfirmed == \E i \in DOMAIN shown : shown[i] = [title |-> TitleWarning, answer |-> TRUE]

\* C20: createLinkTransaction is called for a session path that is a plain
\* directory with one or more ".jsonl" files directly in it only after the
\* permanent-deletion warning was shown and confirmed; when the warning is
\* declined the filesystem is as it was and no transaction was created.
C20_WarnedBeforeReplacingSessions ==
    /\ (pc # "start" /\ PriorKind = "directory" /\ countSessionFiles(fs0, Cur, {}) >= 1)
          => WarningConfirmed
    /\ (shown # <<>> /\ shown[Len(shown)] = [title |-> TitleWarning, answer |-> FALSE])
          => (hpc = "done" /\ pc = "start" /\ fs = fs0)

(***************************************************************************)
(* Claims about the transaction between construction and its end.          *)
(***************************************************************************)
\* A transaction was returned and neither commit nor rollback was called.
Open == pc = "open" /\ calls = <<>>

\* Resolving targetPath before the call went through the entry at /r/cur:
\* the target is /r/cur, lies beneath it, or is a link that leads to it.
TargetThroughCurrent ==
    /\ Cur \in DOMAIN fs0
    /\ isDirectoryLike(fs0, targetPath)
    /\ ~isDirectoryLike(RemoveTree(fs0, Cur), targetPath)

\* Reading through /r/cur gives what the target held before the call.
ReadsTarget ==
    LET now == realpath(fs, Cur)
        was == realpath(fs0, targetPath)
    IN  /\ now # NoEntry
        /\ was # NoEntry
        /\ Subtree(fs, now) = Subtree(fs0, was)

\* C23: right after createLinkTransaction returned, /r/cur is a symbolic
\* link to the target, reading through it gives the target's contents, and
\* when /r/cur was a directory or a link the displaced entry is unchanged
\* at the backup path.
C23_LinkedAndBackedUp ==
    Open =>
        /\ fs[Cur] = Link(targetPath)
        /\ ReadsTarget
        /\ (PriorKind \in {"directory", "symlink"} =>
               backupPath # NoEntry /\ OriginalAt(backupPath))


\* C29: when the target resolves to the session directory itself (the
\* target is /r/cur, lies beneath it, or is a link that leads to it), the
\* construction followed by commit() keeps what the directory held, and
\* /r/cur still dereferences to a directory.
C29_AliasedTargetKeepsData ==
    (pc = "open" /\ FirstCall("commit") /\ ~faulted
        /\ PriorKind = "directory" /\ TargetThroughCurrent)
    => /\ OriginalAt(Cur) \/ OriginalAt(backupPath) \/ OriginalAt(realpath(fs, Cur))
       /\ isDirectoryLike(fs, Cur)


\* C24: when the symbolic link cannot be made after /r/cur was renamed to
\* the backup path, the rename back is attempted before the error leaves,
\* the error is that of the link whether or not the rename back worked, and
\* no transaction is returned; when the rename back worked, the original is
\* at /r/cur again and nothing is left at the backup path.
C24_RestoredBeforeRethrow ==
    /\ (pc # "start" /\ error = "symlinkSync" /\ backupPath # NoEntry) =>
          /\ pc = "threw"
          /\ restore \in {"done", "failed"}
          /\ (restore = "done" => OriginalAt(Cur) /\ Absent(fs, backupPath))
          /\ (restore = "failed" => OriginalAt(backupPath) /\ Absent(fs, Cur))
    /\ restore # "none" => (pc = "threw" /\ error = "symlinkSync")
    /\ pc = "open" => error = ""

\* The link failed, and the rename back failed as well.
C24_Witness ==
    /\ pc = "threw"
    /\ error = "symlinkSync"
    /\ restore = "failed"
    /\ PriorKind = "directory"
    /\ OriginalAt(backupPath)

\* The link failed and the directory is back in place.
C24_WitnessRestored ==
    /\ pc = "threw"
    /\ error = "symlinkSync"
    /\ restore = "done"
    /\ PriorKind = "directory"
    /\ OriginalAt(Cur)


\* C25: the target is checked before the current path.  A target that does
\* not dereference to a directory gives "Target is not a directory" whatever
\* /r/cur is, with nothing changed; the refusal to overwrite is raised only
\* for a target that does dereference to a directory.
C25_TargetCheckedFirst ==
    /\ (pc # "start" /\ ~isDirectoryLike(fs0, targetPath)) =>
          (pc = "threw" /\ error = ErrTarget /\ fs = fs0)
    /\ error = ErrRefused => (pc = "threw" /\ isDirectoryLike(fs0, targetPath))
    /\ error = ErrTarget => ~isDirectoryLike(fs0, targetPath)

\* Both checks would fail: /r/cur is a regular file and the target is none.
C25_Witness ==
    /\ pc = "threw"
    /\ error = ErrTarget
    /\ PriorKind = "other"
    /\ ~isDirectoryLike(fs0, targetPath)


\* The displaced entry is on disk at the transaction's backup path.
BackupOnDisk == backupPath # NoEntry /\ OriginalAt(backupPath)

\* The kind getPathKind gave for /r/cur when nothing failed.
KindSeen == getPathKind(fs0, Cur, FALSE)

\* The backup path is a sibling of /r/cur named cur.bak-<stamp>[-<n>].
BackupNamed ==
    backupPath # NoEntry =>
        \E stamp \in 0..MaxStamp, n \in 0..3 : backupPath = candidate(Cur, stamp, n)

\* C22 as stated: the backup is on disk exactly while the transaction is
\* open and /r/cur was not missing, it carries a backup name beside /r/cur,
\* and it is gone once commit or rollback has been called.
C22_BackupWhileOpen ==
    /\ BackupOnDisk <=> (Open /\ KindSeen # "missing")
    /\ BackupNamed
    /\ calls # <<>> => NoBackupLeft

\* C22 with the failures taken into account: for an open transaction the
\* backup is on disk exactly when /r/cur was not missing; it carries a backup
\* name beside /r/cur; after commit or rollback it is gone unless an
\* operation of that call failed; without a transaction it is on disk only
\* when the rename back of construction failed.
C22_BackupWhileOpenUnlessFailed ==
    /\ Open => (BackupOnDisk <=> KindSeen # "missing")
    /\ BackupNamed
    /\ (calls # <<>> /\ ~calls[1].threw /\ ~faulted) => NoBackupLeft
    /\ (pc # "open" /\ BackupOnDisk) => restore = "failed"

\* The backup of a directory is on disk under the second name of its stamp.
C22_Witness ==
    /\ Open
    /\ PriorKind = "directory"
    /\ BackupOnDisk
    /\ \E stamp \in 0..MaxStamp : backupPath = candidate(Cur, stamp, 1)


(***************************************************************************)
(* Claims about the states between two filesystem operations, under        *)
(* StepSpec.                                                               *)
(***************************************************************************)
\* commit() has removed the backup, or tried to.
CommitActed == At("closed") /\ FirstCall("commit")

\* C21: from the start of createLinkTransaction until commit() acts, in
\* every state between two filesystem operations of construction and of
\* rollback, the entry /r/cur had before the call is whole at /r/cur or at
\* the backup path, and not at both.  Entries carry no identity here: when
\* /r/cur was a link to the very path it is linked to again, the new link
\* at /r/cur reads the same as the original at the backup path.
C21_OriginalNeverLost ==
    (Cur \in DOMAIN fs0 /\ ~CommitActed) =>
        LET atCurrent == OriginalAt(Cur)
            atBackup == backupPath # NoEntry /\ OriginalAt(backupPath)
        IN  /\ atCurrent \/ atBackup
            /\ (atCurrent /\ atBackup) => fs0[Cur] = Link(targetPath)

\* Between the removal of the link and the rename back of rollback(): the
\* directory is at the backup path and nothing is at /r/cur.
C21_Witness ==
    /\ At("renameBack")
    /\ PriorKind = "directory"
    /\ Absent(fs, Cur)
    /\ OriginalAt(backupPath)
    /\ ~OriginalAt(Cur)


\* The steps and the whole call agree: what construction taken step by step
\* ends in is an outcome of createLinkTransaction on the same filesystem.
StepsAgreeWithCall ==
    (At("returned") \/ At("threw")) =>
        \E stamp \in 0..MaxStamp, faults \in SUBSET CreateFaults :
            createLinkTransaction(fs0, Cur, targetPath, stamp, faults)
                = Outcome(fs, error, backupPath, restore)


(***************************************************************************)
(* Claims about the folder picker, under PickerSpec.                       *)
(***************************************************************************)
\* C28: once no preview is being built, the preview text shown is that of
\* the highlighted folder (its preview or the failure to load it), whatever
\* the order of selection changes and completions; a late completion for
\* another folder never replaces it.
C28_PreviewOfSelection ==
    (picker.state = "open" /\ picker.pending = {}) =>
        picker.previewText \in {PreviewOf(picker.selected), FailedFor(picker.selected)}


(***************************************************************************)
(* Claims about the handler's use of the transaction, under HandlerSpec.   *)
(***************************************************************************)
\* The last await was newSession or switchSession, and it returned without
\* being cancelled.
SessionStarted ==
    awaited \in {[call |-> "newSession", result |-> "ok"],
                 [call |-> "switchSession", result |-> "ok"]}

\* C26: commit() is called on the transaction only after newSession or
\* switchSession returned without being cancelled; in every other case in
\* which the handler ends after the link was made (no session wanted, none
\* picked, creation or switch cancelled, an await rejected) rollback() is
\* the call that acts and commit() is not called.
C26_CommitOnlyAfterSessionStarted ==
    pc = "open" =>
        /\ (\E i \in DOMAIN calls : calls[i].op = "commit") => SessionStarted
        /\ HandlerOver =>
              IF SessionStarted THEN FirstCall("commit") ELSE FirstCall("rollback")

\* The switch was cancelled and the link rolled back.
C26_Witness ==
    /\ HandlerOver
    /\ pc = "open"
    /\ awaited = [call |-> "switchSession", result |-> "cancelled"]
    /\ FirstCall("rollback")
    /\ OriginalAt(Cur)

\* The session switch went through and the link was committed.
C26_WitnessCommitted ==
    /\ HandlerOver
    /\ pc = "open"
    /\ awaited = [call |-> "switchSession", result |-> "ok"]
    /\ FirstCall("commit")


\* A confirmation asked before the link is made was declined.
DeclinedBeforeLink ==
    \E i \in DOMAIN shown :
        /\ shown[i].title \in {TitleLink, TitleWarning}
        /\ ~shown[i].answer

\* The folder picker returned nothing.
SelectionCancelled == awaited = [call |-> "selectFolderWithPreview", result |-> "none"]

\* The user did not let the link be made, and it was not made.
NoLinkWithoutConsent ==
    (SelectionCancelled \/ selected.isCurrent \/ DeclinedBeforeLink) =>
        /\ pc = "start"
        /\ calls = <<>>
        /\ fs = fs0
        /\ hpc # "create"

\* C27: when the user cancels the folder picker, picks the folder marked
\* current or declines a confirmation asked before the link, then
\* createLinkTransaction is not called and /r/cur and its siblings are as
\* they were when the command started; and createLinkTransaction is called
\* at most once in a run of the command: when it is called, no call was
\* made before.
C27_NoLinkWithoutConsentAndOnce ==
    /\ []NoLinkWithoutConsent
    /\ [][hpc = "create" => pc = "start"]_vars

\* The warning was declined after "Link sessions?" was confirmed.
C27_Witness ==
    /\ hpc = "done"
    /\ Len(shown) = 2
    /\ shown[1] = [title |-> TitleLink, answer |-> TRUE]
    /\ shown[2] = [title |-> TitleWarning, answer |-> FALSE]
    /\ pc = "start"
    /\ fs = fs0

=============================================================================
